---- MODULE Spec2Model ----
(***************************************************************************)
(* A model of menu_genrater/src/App.tsx: the menu item form (sanitised     *)
(* prices, tax-inclusive amounts), the auto-fit text sizer, the page scale *)
(* fitter, the debounced colour history with its durable store, and the    *)
(* PNG export handler.                                                     *)
(*                                                                         *)
(* Text is a sequence of one-character strings.  Numbers that the program  *)
(* holds as IEEE doubles are modelled exactly: integers as integers, the   *)
(* page scale as a fraction [num, den], a number that may be NaN as a       *)
(* record [nan, v].                                                        *)
(***************************************************************************)
EXTENDS Integers, Sequences, FiniteSets, TLC

VARIABLES
    items,              \* useState<MenuItem[]>(initialItems)
    visibleCount,       \* useState<1 | 2>(2)
    typed,              \* per item: event.target.value of the last price event
    mounted,            \* previewRef / previewStageRef are attached
    stage,              \* what updateScale measured: client size and padding
    pageScale,          \* useState(1), a fraction
    scaleRuns,          \* number of completed updateScale runs (capped)
    fitEnv,             \* what fit() measured: parent height, text length
    fontSize,           \* node.style.fontSize in px, 0 while never assigned
    fitApplied,         \* the last fit() reached its search and line 80
    store,              \* localStorage[COLOR_HISTORY_KEY]
    storedAtOpen,       \* what the store held when the page was opened
    colorHistory,       \* useState<string[]>(initialColorHistory)
    shadowColor,        \* useState(initialColorHistory[0] ?? DEFAULT)
    historyTimeoutRef,  \* useRef<number | null>: a timer id, or NoTimer
    timers,             \* the browser's pending timeouts: records [id, color]
    nextTimerId,        \* the id window.setTimeout returns next
    cancelled,          \* ids given to window.clearTimeout while pending
    clearedColors,      \* the colours those cleared timeouts would have committed
    fired,              \* ids whose callback has run
    lastOp,             \* the last colour handler that ran, with what it saw
    events,             \* number of colour events so far (bounds the run)
    nodeStyle,          \* previewRef.current.style, as a record
    calls,              \* per handleDownload invocation: its position and locals
    clicks              \* number of handleDownload invocations started

itemVars == <<items, visibleCount, typed>>
scaleVars == <<mounted, stage, pageScale, scaleRuns>>
fitVars == <<fitEnv, fontSize, fitApplied>>
colorVars == <<store, storedAtOpen, colorHistory, shadowColor, historyTimeoutRef, timers,
               nextTimerId, cancelled, clearedColors, fired, lastOp, events>>
downloadVars == <<nodeStyle, calls, clicks>>
vars == <<itemVars, scaleVars, fitVars, colorVars, downloadVars>>

Min2(a, b) == IF a <= b THEN a ELSE b

(***************************************************************************)
(* Program constants (App.tsx lines 13-18) and option defaults.            *)
(***************************************************************************)
TAX_RATE_PERCENT == 10
PAGE_WIDTH == 794
PAGE_HEIGHT == 1123
DEFAULT_SHADOW_COLOR == "#57e8ff"
MAX_COLOR_HISTORY == 8
FitMin == 48
FitMax == 220

(***************************************************************************)
(* Text helpers.                                                           *)
(***************************************************************************)
DigitChars == <<"0", "1", "2", "3", "4", "5", "6", "7", "8", "9">>
Digits == {DigitChars[i] : i \in 1..10}
DigitVal(c) == CHOOSE v \in 0..9 : DigitChars[v + 1] = c

RECURSIVE ToDigits(_)
\* The decimal numeral of a natural number, as a user types it.
ToDigits(n) ==
    IF n < 10 THEN <<DigitChars[n + 1]>>
    ELSE Append(ToDigits(n \div 10), DigitChars[(n % 10) + 1])

RECURSIVE SeqsUpTo(_, _)
\* All sequences over S of length at most n.
SeqsUpTo(S, n) ==
    IF n = 0 THEN {<<>>}
    ELSE LET shorter == SeqsUpTo(S, n - 1)
         IN shorter \cup {Append(s, c) : s \in shorter, c \in S}

(***************************************************************************)
(* Menu items                                                              *)
(***************************************************************************)
\* Bounds of the typed price text.
MaxTextLen == 3
MaxPrice == 12
TypedAlphabet == {"5", "-"}
\* event.target.value of a price event: any short text over the alphabet, the
\* numeral of a small price, or zeros.
TypedTexts ==
    SeqsUpTo(TypedAlphabet, MaxTextLen) \cup {ToDigits(n) : n \in 0..MaxPrice}
    \cup {<<"0", "5">>, <<"0", "0">>, <<"0", ".", "5">>}
TypedNames == {"", "A"}

ItemIndex == {1, 2}

\* (the names stand for the two Japanese display names of the source)
initialItems ==
    << [id |-> "item-1", name |-> "menu1", price |-> <<"9", "8", "0">>],
       [id |-> "item-2", name |-> "menu2", price |-> <<"8", "8", "8">>] >>

\* KeepChar with a slip: the minus sign and the decimal point survive.
KeepCharNumeric(c) == c \in Digits \cup {"-", "."}

\* /[^\d]/ : the characters the replace() leaves in place.
KeepChar(c) == c \in Digits

RECURSIVE sanitizeDigits(_)
\* value.replace(/[^\d]/g, '')
sanitizeDigits(value) ==
    IF value = <<>> THEN <<>>
    ELSE IF KeepChar(Head(value))
         THEN <<Head(value)>> \o sanitizeDigits(Tail(value))
         ELSE sanitizeDigits(Tail(value))

RECURSIVE NumberOf(_)
\* Number(s) for a string of ASCII digits: 0 for the empty string, else its
\* decimal value (leading zeros ignored).
NumberOf(s) ==
    IF s = <<>> THEN 0
    ELSE 10 * NumberOf(SubSeq(s, 1, Len(s) - 1)) + DigitVal(s[Len(s)])

\* Math.round(x) for x = n / d with n >= 0, d > 0: floor(x + 0.5).
MathRound(n, d) == (2 * n + d) \div (2 * d)

\* getTaxIncluded with a slip: Math.floor in place of Math.round.
getTaxIncludedFloor(value) ==
    IF value > 0 THEN (value * (100 + TAX_RATE_PERCENT)) \div 100 ELSE 0

\* value > 0 ? Math.round(value * (1 + TAX_RATE)) : 0
\* The double 1 + 0.1 lies above 11/10 by less than 1e-16, and the product is
\* rounded to the nearest double, so for prices far below 2^53 Math.round
\* gives what it gives on the exact product value * 11 / 10.
getTaxIncluded(value) ==
    IF value > 0 THEN MathRound(value * (100 + TAX_RATE_PERCENT), 100) ELSE 0

\* Number(sanitizeDigits(item.price)) || 0
\* (Number of a digit string is never NaN, and "|| 0" maps 0 to 0.)
priceValueOf(item) == NumberOf(sanitizeDigits(item.price))

\* computedItems: items.map(item => ({...item, priceValue, taxIncluded}))
computedItem(item) ==
    [id |-> item.id, name |-> item.name, price |-> item.price,
     priceValue |-> priceValueOf(item),
     taxIncluded |-> getTaxIncluded(priceValueOf(item))]

computedItems == <<computedItem(items[1]), computedItem(items[2])>>

\* itemsToRender with a slip: slice(-visibleCount), the last items.
itemsToRenderLast == SubSeq(computedItems, 3 - visibleCount, 2)

\* computedItems.slice(0, visibleCount)
itemsToRender == SubSeq(computedItems, 1, visibleCount)

\* handleNameChange(id)(event)
handleNameChange(i, value) ==
    /\ LET f(item) == IF item.id = items[i].id
                       THEN [item EXCEPT !.name = value] ELSE item
       IN items' = <<f(items[1]), f(items[2])>>
    /\ UNCHANGED <<visibleCount, typed>>
    /\ UNCHANGED <<scaleVars, fitVars, colorVars, downloadVars>>

\* handlePriceChange(id)(event)
handlePriceChange(i, value) ==
    /\ LET digitsOnly == sanitizeDigits(value)
           f(item) == IF item.id = items[i].id
                       THEN [item EXCEPT !.price = digitsOnly] ELSE item
       IN items' = <<f(items[1]), f(items[2])>>
    /\ typed' = [typed EXCEPT ![i] = value]
    /\ UNCHANGED visibleCount
    /\ UNCHANGED <<scaleVars, fitVars, colorVars, downloadVars>>

\* onClick={() => setVisibleCount(count)}
setVisibleCount(count) ==
    /\ visibleCount' = count
    /\ UNCHANGED <<items, typed>>
    /\ UNCHANGED <<scaleVars, fitVars, colorVars, downloadVars>>

(***************************************************************************)
(* Auto-fit text sizer (useAutoFitText.fit)                                *)
(***************************************************************************)
\* Bounds of what fit() measures: the parent's clientHeight is a multiple of
\* HeightStep, its vertical padding 0 or FitPadding on each side, the text has
\* 1..MaxChars characters and wraps in a box NameBoxWidth wide, and the node
\* has no minimum height or one of NodeMinHeight.
HeightStep == 25
MaxHeightSteps == 30
FitPadding == 8
MaxChars == 3
NameBoxWidth == 300
NodeMinHeight == 120

FitEnvs ==
    {[clientHeight |-> HeightStep * k, paddingTop |-> p, paddingBottom |-> p,
      chars |-> n, minHeight |-> m] :
        k \in 0..MaxHeightSteps, p \in {0, FitPadding}, n \in 1..MaxChars,
        m \in {0, NodeMinHeight}}

\* node.scrollHeight with fontSize = size: the text wraps into lines that hold
\* NameBoxWidth px of glyphs, each glyph and each line `size` px, and the node
\* is never lower than its minimum height.  It is monotonically
\* non-decreasing in size, with jumps (a new line) and flat stretches.
scrollHeight(text, size) ==
    LET wrapped == size * ((text.chars * size + NameBoxWidth - 1) \div NameBoxWidth)
    IN IF wrapped >= text.minHeight THEN wrapped ELSE text.minHeight

\* parent.clientHeight - (paddingTop + paddingBottom)
fitAvailableHeight(env) == env.clientHeight - (env.paddingTop + env.paddingBottom)

\* fitProbe with a slip: the comparison is strict.
fitProbeStrict(text, mid, availableHeight) ==
    scrollHeight(text, mid) < availableHeight

\* node.style.fontSize = `${mid}px`; node.scrollHeight <= availableHeight
fitProbe(text, mid, availableHeight) ==
    scrollHeight(text, mid) <= availableHeight

RECURSIVE fitSearch(_, _, _, _, _)
\* while (low <= high) { ... }: the value of best when the loop ends.
fitSearch(low, high, best, text, availableHeight) ==
    IF low <= high
    THEN LET mid == (low + high) \div 2
         IN IF fitProbe(text, mid, availableHeight)
            THEN fitSearch(mid + 1, high, mid, text, availableHeight)
            ELSE fitSearch(low, mid - 1, best, text, availableHeight)
    ELSE best

\* fit(), run by a text change, a resize of the parent or the window, or the
\* fonts becoming ready; env is what it measures.
fit(env) ==
    /\ fitEnv' = env
    /\ LET availableHeight == fitAvailableHeight(env)
       IN IF availableHeight <= 0
          THEN /\ UNCHANGED fontSize
               /\ fitApplied' = FALSE
          ELSE /\ fontSize' = fitSearch(FitMin, FitMax, FitMin, env,
                                        availableHeight)
               /\ fitApplied' = TRUE
    /\ UNCHANGED <<itemVars, scaleVars, colorVars, downloadVars>>

(***************************************************************************)
(* Page scale fitter (updateScale)                                         *)
(***************************************************************************)
Num(v) == [nan |-> FALSE, v |-> v]
NaN == [nan |-> TRUE, v |-> 0]

NumAdd(a, b) == IF a.nan \/ b.nan THEN NaN ELSE Num(a.v + b.v)
NumSub(a, b) == IF a.nan \/ b.nan THEN NaN ELSE Num(a.v - b.v)
\* Math.max(0, x)
MathMax0(x) == IF x.nan THEN NaN ELSE IF x.v > 0 THEN x ELSE Num(0)

\* x / d for a positive integer d: NaN, or the fraction x.v / d.
Ratio(x, d) == [nan |-> x.nan, num |-> x.v, den |-> d]
One == [nan |-> FALSE, num |-> 1, den |-> 1]
RatLeq(a, b) == a.num * b.den <= b.num * a.den
RatMin(a, b) == IF a.nan \/ b.nan THEN [nan |-> TRUE, num |-> 0, den |-> 1]
                ELSE IF RatLeq(a, b) THEN a ELSE b
\* Math.min(a, b, c)
MathMin3(a, b, c) == RatMin(RatMin(a, b), c)

\* Bounds of what updateScale measures.
PadUnit == 10
MaxPadUnits == 1
ClientWidths == {0, 10, 397, 407, 417, 794, 800, 1600}
ClientHeights == {0, 10, 600, 1123, 1143, 1200}
PaddingValues == {Num(PadUnit * k) : k \in 0..MaxPadUnits}
\* getComputedStyle(stage): the same padding on the four sides, or (an element
\* that has no box) padding strings parseFloat turns into NaN.
StageStyles ==
    {[paddingLeft |-> p, paddingRight |-> p, paddingTop |-> p, paddingBottom |-> p] :
        p \in PaddingValues \cup {NaN}}
    \cup {[paddingLeft |-> Num(PadUnit), paddingRight |-> Num(0),
           paddingTop |-> Num(0), paddingBottom |-> Num(0)]}
Stages ==
    {[clientWidth |-> w, clientHeight |-> h, styles |-> st] :
        w \in ClientWidths, h \in ClientHeights, st \in StageStyles}

stageAvailableWidth(s) ==
    MathMax0(NumSub(Num(s.clientWidth),
                    NumAdd(s.styles.paddingLeft, s.styles.paddingRight)))
stageAvailableHeight(s) ==
    MathMax0(NumSub(Num(s.clientHeight),
                    NumAdd(s.styles.paddingTop, s.styles.paddingBottom)))

\* nextScaleOf with a slip: the cap at 1 is missing.
nextScaleUncapped(s) ==
    RatMin(Ratio(stageAvailableWidth(s), PAGE_WIDTH), Ratio(stageAvailableHeight(s), PAGE_HEIGHT))

\* nextScaleOf with a slip: the height ratio is left out.
nextScaleWidthOnly(s) ==
    RatMin(One, Ratio(stageAvailableWidth(s), PAGE_WIDTH))

\* Math.min(1, widthRatio, heightRatio)
nextScaleOf(s) ==
    MathMin3(One, Ratio(stageAvailableWidth(s), PAGE_WIDTH),
                  Ratio(stageAvailableHeight(s), PAGE_HEIGHT))

\* Number.isFinite(nextScale) && nextScale > 0 ? nextScale : 1
scaleToSet(s) ==
    LET nextScale == nextScaleOf(s)
    IN IF ~nextScale.nan /\ nextScale.num > 0
       THEN [num |-> nextScale.num, den |-> nextScale.den]
       ELSE [num |-> 1, den |-> 1]

\* updateScale(), with s what it measures on the stage; attached says
\* whether previewStageRef.current and previewRef.current are set.
updateScale(attached, s) ==
    IF ~attached
    THEN UNCHANGED <<stage, pageScale, scaleRuns>>
    ELSE /\ stage' = s
         /\ pageScale' = scaleToSet(s)
         /\ scaleRuns' = Min2(scaleRuns + 1, 2)

\* The layout effect of the first commit: the refs are attached, updateScale
\* runs and the observers and the resize listener are registered.
Mount(s) ==
    /\ ~mounted
    /\ mounted' = TRUE
    /\ updateScale(TRUE, s)
    /\ UNCHANGED <<itemVars, fitVars, colorVars, downloadVars>>

\* A ResizeObserver callback or the window's resize event.
Resize(s) ==
    /\ mounted
    /\ updateScale(mounted, s)
    /\ UNCHANGED mounted
    /\ UNCHANGED <<itemVars, fitVars, colorVars, downloadVars>>

(***************************************************************************)
(* Colour history, its debounce timer and the durable store                *)
(***************************************************************************)
\* The colours of the model: one more than the history holds.
Palette == <<"#57e8ff", "#000001", "#000002", "#000003", "#000004",
             "#000005", "#000006", "#000007", "#000008">>
\* The colours the picker reports in a session: two old ones and one that no
\* stored history of MAX_COLOR_HISTORY entries below holds.
PickerColors == {Palette[1], Palette[2], Palette[9]}
\* Bounds: colour events per run, length of the arbitrary stored arrays.
MaxEvents == 4
MaxStoredShort == 2

\* An element of a parsed JSON array: a string, or something else.
Elem(c) == [str |-> TRUE, val |-> c]
NonString == [str |-> FALSE, val |-> "42"]

RECURSIVE Prefix(_)
\* The array of the first n palette colours.
Prefix(n) == IF n = 0 THEN <<>> ELSE Append(Prefix(n - 1), Elem(Palette[n]))

\* localStorage.getItem(COLOR_HISTORY_KEY): nothing, the empty string, text
\* JSON.parse rejects, JSON that is no array, or an array.
StoredArrays ==
    SeqsUpTo({Elem(Palette[1]), Elem(Palette[2]), NonString}, MaxStoredShort)
    \cup {Prefix(n) : n \in (MAX_COLOR_HISTORY - 1)..(MAX_COLOR_HISTORY + 1)}
StoreContents ==
    {[kind |-> k, items |-> <<>>] : k \in {"absent", "empty", "invalid", "value"}}
    \cup {[kind |-> "array", items |-> a] : a \in StoredArrays}

RECURSIVE ElemsOf(_)
ElemsOf(history) ==
    IF history = <<>> THEN <<>>
    ELSE <<Elem(Head(history))>> \o ElemsOf(Tail(history))

RECURSIVE ValsOf(_)
ValsOf(elems) ==
    IF elems = <<>> THEN <<>>
    ELSE <<Head(elems).val>> \o ValsOf(Tail(elems))

\* JSON.stringify(colorHistory), as the store then holds it
JSONstringify(history) == [kind |-> "array", items |-> ElemsOf(history)]

\* loadColorHistory()
loadColorHistory(stored) ==
    IF stored.kind \in {"absent", "empty"} THEN <<DEFAULT_SHADOW_COLOR>>
    ELSE IF stored.kind = "invalid" THEN <<DEFAULT_SHADOW_COLOR>>
    ELSE IF stored.kind = "array" /\ Len(stored.items) > 0
         THEN ValsOf(SelectSeq(stored.items, LAMBDA e : e.str))
         ELSE <<DEFAULT_SHADOW_COLOR>>

\* initialColorHistory[0] ?? DEFAULT_SHADOW_COLOR
initialShadowColor(history) ==
    IF Len(history) > 0 THEN history[1] ELSE DEFAULT_SHADOW_COLOR

\* commitColorToHistory with a slip: the colour is appended, not put in front.
commitAppend(prev, nextColor) ==
    LET filtered == SelectSeq(prev, LAMBDA color : color # nextColor)
        all == Append(filtered, nextColor)
    IN SubSeq(all, 1, Min2(Len(all), MAX_COLOR_HISTORY))

\* The updater of commitColorToHistory:
\* [nextColor, ...prev.filter(color => color !== nextColor)].slice(0, MAX)
commitColorToHistory(prev, nextColor) ==
    LET filtered == SelectSeq(prev, LAMBDA color : color # nextColor)
        all == <<nextColor>> \o filtered
    IN SubSeq(all, 1, Min2(Len(all), MAX_COLOR_HISTORY))

\* setColorHistory(updater) and, after the render, the effect that writes
\* JSON.stringify(colorHistory) to the store.
CommitAndPersist(nextColor) ==
    /\ colorHistory' = commitColorToHistory(colorHistory, nextColor)
    /\ store' = JSONstringify(colorHistory')

\* historyTimeoutRef.current === null (timer ids are positive)
NoTimer == 0

\* pendingAfterClear with a slip: the timeout is not cleared.
pendingAfterNoClear(ref) == timers

\* if (historyTimeoutRef.current) window.clearTimeout(historyTimeoutRef.current):
\* the timeouts the browser still holds afterwards.
pendingAfterClear(ref) == {t \in timers : ref = NoTimer \/ t.id # ref}

\* The ids that call to clearTimeout took from the browser.
cancelledAfterClear(ref) ==
    cancelled \cup {t.id : t \in timers \ pendingAfterClear(ref)}

\* The colours of the timeouts cleared so far.
clearedColorsAfterClear(ref) ==
    clearedColors \cup {t.color : t \in timers \ pendingAfterClear(ref)}

Op(name, color) ==
    [op |-> name, color |-> color, prev |-> colorHistory, ref |-> historyTimeoutRef]

\* onChange of the colour input:
\* handleShadowColorChange(value, {immediate: false}) -> scheduleHistoryUpdate
ColorInput(nextColor) ==
    /\ mounted /\ events < MaxEvents
    /\ shadowColor' = nextColor
    /\ LET id == nextTimerId
       IN /\ timers' = pendingAfterClear(historyTimeoutRef)
                        \cup {[id |-> id, color |-> nextColor]}
          /\ cancelled' = cancelledAfterClear(historyTimeoutRef)
          /\ clearedColors' = clearedColorsAfterClear(historyTimeoutRef)
          /\ historyTimeoutRef' = id
          /\ nextTimerId' = id + 1
    /\ lastOp' = Op("input", nextColor)
    /\ events' = events + 1
    /\ UNCHANGED <<store, storedAtOpen, colorHistory, fired>>
    /\ UNCHANGED <<itemVars, scaleVars, fitVars, downloadVars>>

\* onClick of a history chip: handleShadowColorChange(color), immediate
ChipClick(nextColor) ==
    /\ mounted /\ events < MaxEvents
    /\ Len(colorHistory) > 1
    /\ \E i \in 1..Len(colorHistory) : colorHistory[i] = nextColor
    /\ shadowColor' = nextColor
    /\ timers' = pendingAfterClear(historyTimeoutRef)
    /\ cancelled' = cancelledAfterClear(historyTimeoutRef)
    /\ clearedColors' = clearedColorsAfterClear(historyTimeoutRef)
    /\ historyTimeoutRef' = NoTimer
    /\ CommitAndPersist(nextColor)
    /\ lastOp' = Op("chip", nextColor)
    /\ events' = events + 1
    /\ UNCHANGED <<storedAtOpen, nextTimerId, fired>>
    /\ UNCHANGED <<itemVars, scaleVars, fitVars, downloadVars>>

\* onBlur of the colour input: flushPendingColor()
flushPendingColor ==
    /\ mounted /\ events < MaxEvents
    /\ timers' = pendingAfterClear(historyTimeoutRef)
    /\ cancelled' = cancelledAfterClear(historyTimeoutRef)
    /\ clearedColors' = clearedColorsAfterClear(historyTimeoutRef)
    /\ historyTimeoutRef' = NoTimer
    /\ CommitAndPersist(shadowColor)
    /\ lastOp' = Op("blur", shadowColor)
    /\ events' = events + 1
    /\ UNCHANGED <<storedAtOpen, shadowColor, nextTimerId, fired>>
    /\ UNCHANGED <<itemVars, scaleVars, fitVars, downloadVars>>

\* The callback of the 500 ms timeout t, run by the browser.
TimerFire(t) ==
    /\ t \in timers /\ events < MaxEvents
    /\ timers' = timers \ {t}
    /\ fired' = fired \cup {t.id}
    /\ CommitAndPersist(t.color)
    /\ historyTimeoutRef' = NoTimer
    /\ lastOp' = Op("timer", t.color)
    /\ events' = events + 1
    /\ UNCHANGED <<storedAtOpen, shadowColor, nextTimerId, cancelled,
                   clearedColors>>
    /\ UNCHANGED <<itemVars, scaleVars, fitVars, downloadVars>>

\* The cleanup of the mount effect: the pending timeout is cleared (the ref
\* keeps its value) and no handler runs afterwards.
Unmount ==
    /\ mounted
    /\ mounted' = FALSE
    /\ timers' = pendingAfterClear(historyTimeoutRef)
    /\ cancelled' = cancelledAfterClear(historyTimeoutRef)
    /\ clearedColors' = clearedColorsAfterClear(historyTimeoutRef)
    /\ lastOp' = Op("unmount", shadowColor)
    /\ UNCHANGED <<store, storedAtOpen, colorHistory, shadowColor,
                   historyTimeoutRef, nextTimerId, fired, events>>
    /\ UNCHANGED <<stage, pageScale, scaleRuns>>
    /\ UNCHANGED <<itemVars, fitVars, downloadVars>>

(***************************************************************************)
(* PNG export (handleDownload)                                             *)
(***************************************************************************)
\* Bound: the number of handleDownload invocations in a run.
MaxClicks == 3

\* new Date(): the instants the model draws from.
Times ==
    { [year |-> 2026, month |-> 11, day |-> 4, hour |-> 9, minute |-> 5,
       second |-> 7, ms |-> 3],
      [year |-> 1999, month |-> 12, day |-> 31, hour |-> 23, minute |-> 59,
       second |-> 59, ms |-> 999],
      [year |-> 2030, month |-> 1, day |-> 1, hour |-> 0, minute |-> 0,
       second |-> 0, ms |-> 0] }

RECURSIVE Pad(_, _)
\* The numeral of n, zero-padded to w digits.
Pad(n, w) ==
    IF w = 0 THEN <<>>
    ELSE Append(Pad(n \div 10, w - 1), DigitChars[(n % 10) + 1])

\* Date.prototype.toISOString() for a year 0..9999: YYYY-MM-DDTHH:mm:ss.sssZ
toISOString(t) ==
    Pad(t.year, 4) \o <<"-">> \o Pad(t.month, 2) \o <<"-">> \o Pad(t.day, 2)
    \o <<"T">> \o Pad(t.hour, 2) \o <<":">> \o Pad(t.minute, 2) \o <<":">>
    \o Pad(t.second, 2) \o <<".">> \o Pad(t.ms, 3) \o <<"Z">>

\* StampStripped with a slip: the T between date and time stays.
StampStrippedKeepT(c) == c \in {"-", ":"}

\* /[-:T]/ : the characters replace() removes from the ISO string.
StampStripped(c) == c \in {"-", ":", "T"}

\* toISOString().replace(/[-:T]/g, "").slice(0, 12)
timestampOf(t) ==
    LET kept == SelectSeq(toISOString(t), LAMBDA c : ~StampStripped(c))
    IN SubSeq(kept, 1, Min2(12, Len(kept)))

\* link.download = `menu_${timestamp}.png`
downloadName(t) == [prefix |-> "menu_", stamp |-> timestampOf(t), ext |-> ".png"]

\* The inline style React renders on the page element (lines 448-451).
RenderedStyle ==
    [transform |-> "scale(pageScale)", transformOrigin |-> "top center",
     transition |-> "", position |-> "", top |-> "", left |-> "", width |-> "",
     height |-> "", zIndex |-> "", backgroundColor |-> ""]

\* The assignments to node.style before the capture (lines 308-316).
captureStyle(style) ==
    [style EXCEPT !.transition = "none", !.transform = "none",
                  !.position = "fixed", !.top = "0", !.left = "0",
                  !.width = "794px", !.height = "1123px", !.zIndex = "9999",
                  !.backgroundColor = "#ffffff"]

NoTime ==
    [year |-> 0, month |-> 0, day |-> 0, hour |-> 0, minute |-> 0,
     second |-> 0, ms |-> 0]

\* An invocation that has not started, with what the model records of it.
IdleCall ==
    [pc |-> "idle", originalStyle |-> RenderedStyle, outcome |-> "none",
     alerts |-> 0, captures |-> 0, downloads |-> <<>>, time |-> NoTime]

\* handleDownload up to its first await: the style is saved and overridden,
\* then the 100 ms timeout is awaited.
DownloadClick ==
    /\ clicks < MaxClicks
    /\ IF ~mounted
       THEN UNCHANGED <<nodeStyle, calls, clicks>>
       ELSE /\ clicks' = clicks + 1
            /\ calls' = [calls EXCEPT ![clicks + 1] =
                            [@ EXCEPT !.pc = "wait", !.originalStyle = nodeStyle]]
            /\ nodeStyle' = captureStyle(nodeStyle)
    /\ UNCHANGED <<itemVars, scaleVars, fitVars, colorVars>>

\* The 100 ms timeout of invocation i resolves: domToPng(node, ...) is called.
DownloadDelayElapsed(i) ==
    /\ calls[i].pc = "wait"
    /\ calls' = [calls EXCEPT ![i] =
                    [@ EXCEPT !.pc = "capture", !.captures = @ + 1]]
    /\ UNCHANGED <<nodeStyle, clicks>>
    /\ UNCHANGED <<itemVars, scaleVars, fitVars, colorVars>>

\* finally { node.style.cssText = originalStyle }
styleAfterFinally(call) == call.originalStyle

\* domToPng resolves: the link is clicked, then the finally block runs.
DownloadResolve(i, now) ==
    /\ calls[i].pc = "capture"
    /\ calls' = [calls EXCEPT ![i] =
                    [@ EXCEPT !.pc = "done", !.outcome = "resolved",
                              !.time = now,
                              !.downloads = Append(@, downloadName(now))]]
    /\ nodeStyle' = styleAfterFinally(calls[i])
    /\ UNCHANGED clicks
    /\ UNCHANGED <<itemVars, scaleVars, fitVars, colorVars>>

\* domToPng rejects: the catch block logs and alerts, then the finally block runs.
DownloadReject(i) ==
    /\ calls[i].pc = "capture"
    /\ calls' = [calls EXCEPT ![i] =
                    [@ EXCEPT !.pc = "done", !.outcome = "rejected",
                              !.alerts = @ + 1]]
    /\ nodeStyle' = styleAfterFinally(calls[i])
    /\ UNCHANGED clicks
    /\ UNCHANGED <<itemVars, scaleVars, fitVars, colorVars>>

(***************************************************************************)
(* Initial states and specifications                                       *)
(***************************************************************************)
ItemsInit ==
    /\ items = initialItems
    /\ visibleCount = 2
    /\ typed = <<initialItems[1].price, initialItems[2].price>>

\* Before the first layout effect.
ScaleInit ==
    /\ mounted = FALSE
    /\ stage = [clientWidth |-> 0, clientHeight |-> 0,
                styles |-> [paddingLeft |-> Num(0), paddingRight |-> Num(0),
                            paddingTop |-> Num(0), paddingBottom |-> Num(0)]]
    /\ pageScale = [num |-> 1, den |-> 1]
    /\ scaleRuns = 0

\* After the first commit, as far as the scale goes: attached, not measured.
ScaleMounted ==
    /\ mounted = TRUE
    /\ stage = [clientWidth |-> 0, clientHeight |-> 0,
                styles |-> [paddingLeft |-> Num(0), paddingRight |-> Num(0),
                            paddingTop |-> Num(0), paddingBottom |-> Num(0)]]
    /\ pageScale = [num |-> 1, den |-> 1]
    /\ scaleRuns = 0

FitInit ==
    /\ fitEnv = [clientHeight |-> 0, paddingTop |-> 0, paddingBottom |-> 0,
                 chars |-> 1, minHeight |-> 0]
    /\ fontSize = 0
    /\ fitApplied = FALSE

\* The state after the first render and its effects, the store having held
\* `stored` when the page was opened.
ColorInitFrom(stored) ==
    /\ storedAtOpen = stored
    /\ colorHistory = loadColorHistory(stored)
    /\ shadowColor = initialShadowColor(colorHistory)
    /\ store = JSONstringify(colorHistory)
    /\ historyTimeoutRef = NoTimer
    /\ timers = {}
    /\ nextTimerId = 1
    /\ cancelled = {}
    /\ clearedColors = {}
    /\ fired = {}
    /\ lastOp = [op |-> "load", color |-> shadowColor, prev |-> <<>>,
                 ref |-> NoTimer]
    /\ events = 0

DownloadInit ==
    /\ nodeStyle = RenderedStyle
    /\ calls = [i \in 1..MaxClicks |-> IdleCall]
    /\ clicks = 0

AbsentStore == [kind |-> "absent", items |-> <<>>]

\* The menu item form.
InitItems ==
    ItemsInit /\ ScaleMounted /\ FitInit /\ ColorInitFrom(AbsentStore) /\ DownloadInit
NextItems ==
    \/ \E i \in ItemIndex, value \in TypedNames : handleNameChange(i, value)
    \/ \E i \in ItemIndex, value \in TypedTexts : handlePriceChange(i, value)
    \/ \E count \in {1, 2} : setVisibleCount(count)
SpecItems == InitItems /\ [][NextItems]_vars

\* The auto-fit sizer of one MenuPreview.
InitFit ==
    ItemsInit /\ ScaleMounted /\ FitInit /\ ColorInitFrom(AbsentStore) /\ DownloadInit
NextFit == \E env \in FitEnvs : fit(env)
SpecFit == InitFit /\ [][NextFit]_vars

\* The page scale fitter.
InitScale ==
    ItemsInit /\ ScaleInit /\ FitInit /\ ColorInitFrom(AbsentStore) /\ DownloadInit
NextScale ==
    \/ \E s \in Stages : Mount(s)
    \/ \E s \in Stages : Resize(s)
SpecScale == InitScale /\ [][NextScale]_vars

\* The colour history, opened on any content of the store.
InitColor ==
    /\ ItemsInit /\ ScaleMounted /\ FitInit /\ DownloadInit
    /\ \E stored \in StoreContents : ColorInitFrom(stored)
NextColor ==
    \/ \E c \in PickerColors : ColorInput(c)
    \/ \E c \in {Palette[k] : k \in 1..Len(Palette)} : ChipClick(c)
    \/ flushPendingColor
    \/ \E t \in timers : TimerFire(t)
    \/ Unmount
SpecColor == InitColor /\ [][NextColor]_vars

\* The PNG export.
InitDownload ==
    ItemsInit /\ ScaleMounted /\ FitInit /\ ColorInitFrom(AbsentStore) /\ DownloadInit
NextDownload ==
    \/ DownloadClick
    \/ \E i \in 1..MaxClicks : DownloadDelayElapsed(i)
    \/ \E i \in 1..MaxClicks, now \in Times : DownloadResolve(i, now)
    \/ \E i \in 1..MaxClicks : DownloadReject(i)
SpecDownload == InitDownload /\ [][NextDownload]_vars

Init == InitColor
Next == NextItems \/ NextFit \/ NextScale \/ NextColor \/ NextDownload
Spec == Init /\ [][Next]_vars

(***************************************************************************)
(* Properties                                                              *)
(***************************************************************************)
FitH == fitAvailableHeight(fitEnv)
FitHeightAt(size) == scrollHeight(fitEnv, size)

\* C1 as stated: for every available height H > 0, the size S that fit()
\* leaves applied satisfies rendered-height(S) <= H, and S = max or
\* rendered-height(S + 1) > H.
C1_AppliedSizeFits ==
    fitApplied =>
        /\ FitHeightAt(fontSize) <= FitH
        /\ (fontSize = FitMax \/ FitHeightAt(fontSize + 1) > FitH)

\* C1 amended: when the text fits at the minimum size, the applied size S is
\* in [min, max], fits, and is the largest that fits (S = max or S + 1 does not
\* fit); when not even the minimum size fits, the applied size is min.
C1_AppliedSizeLargestOrMin ==
    fitApplied =>
        /\ fontSize \in FitMin..FitMax
        /\ IF FitHeightAt(FitMin) <= FitH
           THEN /\ FitHeightAt(fontSize) <= FitH
                /\ (fontSize = FitMax \/ FitHeightAt(fontSize + 1) > FitH)
           ELSE fontSize = FitMin

\* C1 witness: a search that ended strictly inside the range, on the largest
\* size that fits, the sizes below it all rendering at the same height.
C1_Witness ==
    /\ fitApplied
    /\ FitHeightAt(FitMin) = FitHeightAt(fontSize)
    /\ fontSize > FitMin /\ fontSize < FitMax
    /\ FitHeightAt(fontSize) <= FitH
    /\ FitHeightAt(fontSize + 1) > FitH

\* What the last updateScale measured, in plain integers.
StagePaddingNaN ==
    \/ stage.styles.paddingLeft.nan \/ stage.styles.paddingRight.nan
    \/ stage.styles.paddingTop.nan \/ stage.styles.paddingBottom.nan
StageW ==
    LET w == stage.clientWidth
             - (stage.styles.paddingLeft.v + stage.styles.paddingRight.v)
    IN IF w > 0 THEN w ELSE 0
StageH ==
    LET h == stage.clientHeight
             - (stage.styles.paddingTop.v + stage.styles.paddingBottom.v)
    IN IF h > 0 THEN h ELSE 0
\* pageScale compared with a / b (b > 0) by cross-multiplication.
ScaleEq(a, b) == pageScale.num * b = a * pageScale.den
ScaleLeq(a, b) == pageScale.num * b <= a * pageScale.den

\* C2: after updateScale with both elements mounted, pageScale is
\* min(1, availableWidth/794, availableHeight/1123) when that is a finite
\* positive number and 1 otherwise; (800,1200) gives 1, (397,1123) gives 0.5,
\* (0,0) gives 1.
C2_ScaleIsClampedMin ==
    scaleRuns > 0 =>
        /\ pageScale.den > 0
        /\ IF ~StagePaddingNaN /\ StageW > 0 /\ StageH > 0
           THEN /\ ScaleLeq(1, 1)
                /\ ScaleLeq(StageW, PAGE_WIDTH)
                /\ ScaleLeq(StageH, PAGE_HEIGHT)
                /\ \/ ScaleEq(1, 1)
                   \/ ScaleEq(StageW, PAGE_WIDTH)
                   \/ ScaleEq(StageH, PAGE_HEIGHT)
           ELSE ScaleEq(1, 1)
        /\ (~StagePaddingNaN /\ StageW = 800 /\ StageH = 1200 => ScaleEq(1, 1))
        /\ (~StagePaddingNaN /\ StageW = 397 /\ StageH = 1123 => ScaleEq(1, 2))
        /\ (~StagePaddingNaN /\ StageW = 0 /\ StageH = 0 => ScaleEq(1, 1))

\* C2 witness: the width-bound example, measured through a padded stage.
C2_Witness ==
    /\ scaleRuns > 0 /\ ~StagePaddingNaN
    /\ stage.styles.paddingLeft.v > 0
    /\ StageW = 397 /\ StageH = 1123
    /\ ScaleEq(1, 2)

\* C3 as stated: after any mount and resize events the scale is at most 1
\* and the scaled page fits the usable viewport on both axes.
C3_ScaledPageFits ==
    scaleRuns > 0 =>
        /\ ScaleLeq(1, 1)
        /\ ~StagePaddingNaN
        /\ ScaleLeq(StageW, PAGE_WIDTH)
        /\ ScaleLeq(StageH, PAGE_HEIGHT)

\* C3 amended: the scale never exceeds 1; whenever the measured available
\* width and height are both positive numbers the scaled page fits on both
\* axes; otherwise the scale is the fallback 1.
C3_ScaledPageFitsWhenMeasurable ==
    /\ pageScale.den > 0
    /\ ScaleLeq(1, 1)
    /\ scaleRuns > 0 =>
          IF ~StagePaddingNaN /\ StageW > 0 /\ StageH > 0
          THEN ScaleLeq(StageW, PAGE_WIDTH) /\ ScaleLeq(StageH, PAGE_HEIGHT)
          ELSE ScaleEq(1, 1)

\* C3 witness: a stage wider than the page but too low for it: the page is
\* shrunk to the height.
C3_Witness ==
    /\ scaleRuns > 1 /\ ~StagePaddingNaN
    /\ StageW > PAGE_WIDTH /\ StageH > 0 /\ StageH < PAGE_HEIGHT
    /\ ScaleEq(StageH, PAGE_HEIGHT)

NoDuplicates(seq) ==
    \A i, j \in 1..Len(seq) : seq[i] = seq[j] => i = j

\* C4: in every reachable state, from any content of the store, the colour
\* history and the list written to the store have at most 8 entries and no
\* duplicate colour.
C4_HistoryCappedNoDuplicates ==
    /\ Len(colorHistory) <= MAX_COLOR_HISTORY
    /\ NoDuplicates(colorHistory)
    /\ Len(store.items) <= MAX_COLOR_HISTORY
    /\ NoDuplicates(store.items)

CommitOps == {"chip", "blur", "timer"}
\* The index in seq of its k-th entry other than c.
KthOther(seq, c, k) ==
    CHOOSE i \in 1..Len(seq) :
        /\ seq[i] # c
        /\ Cardinality({j \in 1..i : seq[j] # c}) = k
OthersCount(seq, c) == Cardinality({j \in 1..Len(seq) : seq[j] # c})

\* C5: commitColorToHistory(C) puts C at the front, once; the other entries
\* keep their relative order; at most 8 entries stay, the last ones being
\* dropped: a new colour committed to a full history of 8 distinct colours
\* evicts exactly the oldest.
C5_CommitMovesToFront ==
    lastOp.op \in CommitOps =>
        LET prev == lastOp.prev
            c == lastOp.color
            n == OthersCount(prev, c)
        IN /\ Len(colorHistory) = Min2(MAX_COLOR_HISTORY, n + 1)
           /\ colorHistory[1] = c
           /\ \A k \in 2..Len(colorHistory) :
                 /\ colorHistory[k] # c
                 /\ colorHistory[k] = prev[KthOther(prev, c, k - 1)]
           /\ (Len(prev) = MAX_COLOR_HISTORY /\ NoDuplicates(prev) /\ n = Len(prev)
                 => /\ \A k \in 1..Len(colorHistory) :
                          colorHistory[k] # prev[MAX_COLOR_HISTORY]
                    /\ \A k \in 1..(MAX_COLOR_HISTORY - 1) :
                          colorHistory[k + 1] = prev[k])

\* C5 witness: a ninth distinct colour has been committed to a history of
\* eight, and the oldest is gone.
C5_Witness ==
    /\ lastOp.op \in CommitOps
    /\ Len(lastOp.prev) = MAX_COLOR_HISTORY /\ NoDuplicates(lastOp.prev)
    /\ OthersCount(lastOp.prev, lastOp.color) = MAX_COLOR_HISTORY
    /\ Len(colorHistory) = MAX_COLOR_HISTORY
    /\ \A k \in 1..Len(colorHistory) : colorHistory[k] # lastOp.prev[MAX_COLOR_HISTORY]

StartedCalls == 1..clicks
AllCallsDone == clicks > 0 /\ \A i \in StartedCalls : calls[i].pc = "done"

\* C6: once all invocations of handleDownload have completed, overlapping or
\* not, the page element's inline style is what it was before the first.
C6_StyleRestoredAfterAllCalls ==
    AllCallsDone => nodeStyle = RenderedStyle

AllDigits(seq) == \A k \in 1..Len(seq) : seq[k] \in Digits

\* C7: a failed capture alerts exactly once, triggers no download and is not
\* retried; a successful one triggers exactly one download named
\* menu_<12 digits: year, month, day, hour, minute>.png and no alert.
C7_OneAlertOrOneDownload ==
    \A i \in 1..MaxClicks :
        LET call == calls[i]
        IN /\ call.captures <= 1
           /\ call.pc = "done" /\ call.outcome = "rejected" =>
                 call.alerts = 1 /\ call.downloads = <<>> /\ call.captures = 1
           /\ call.pc = "done" /\ call.outcome = "resolved" =>
                 /\ call.alerts = 0 /\ call.captures = 1
                 /\ Len(call.downloads) = 1
                 /\ call.downloads[1].prefix = "menu_"
                 /\ call.downloads[1].ext = ".png"
                 /\ Len(call.downloads[1].stamp) = 12
                 /\ AllDigits(call.downloads[1].stamp)
                 /\ call.downloads[1].stamp =
                       Pad(call.time.year, 4) \o Pad(call.time.month, 2)
                       \o Pad(call.time.day, 2) \o Pad(call.time.hour, 2)
                       \o Pad(call.time.minute, 2)
           /\ call.pc # "done" => call.alerts = 0 /\ call.downloads = <<>>

\* C7 witness: one invocation has failed and another has succeeded.
C7_Witness ==
    \E i, j \in 1..MaxClicks :
        /\ calls[i].pc = "done" /\ calls[i].outcome = "rejected"
        /\ calls[i].alerts = 1
        /\ calls[j].pc = "done" /\ calls[j].outcome = "resolved"
        /\ Len(calls[j].downloads) = 1

\* C8: after flushPendingColor or an immediate handleShadowColorChange no
\* timer is pending, the front of the history is the current shadow colour,
\* and no cancelled timer ever fires.
C8_FlushCancelsAndCommits ==
    /\ cancelled \cap fired = {}
    /\ lastOp.op \in {"blur", "chip"} =>
          /\ historyTimeoutRef = NoTimer
          /\ timers = {}
          /\ Len(colorHistory) > 0
          /\ colorHistory[1] = shadowColor
          /\ store.items[1] = Elem(shadowColor)

\* C8 witness: a blur that found a timer pending and cancelled it.
C8_Witness ==
    /\ lastOp.op = "blur"
    /\ lastOp.ref # NoTimer
    /\ lastOp.ref \in cancelled
    /\ timers = {}
    /\ colorHistory[1] = shadowColor

\* C9: the tax-inclusive amount of every item is round(P * 1.1) for its
\* price P > 0 and 0 for P = 0, where P >= 0 is the decimal value of the raw
\* price text and 0 for the empty text.
C9_TaxIncludedIsRounded ==
    \A i \in ItemIndex :
        LET ci == computedItems[i]
            P == ci.priceValue
            T == ci.taxIncluded
        IN /\ P >= 0
           /\ (ci.price = <<>> => P = 0)
           /\ (ci.price # <<>> => Pad(P, Len(ci.price)) = ci.price)
           /\ (P = 0 => T = 0)
           /\ (P > 0 => 10 * T - 11 * P \in -4..5)

\* C9 witness: a price whose tenth is a tie (5 -> 5.5 -> 6), typed with a
\* sign the sanitizer removed.
C9_Witness ==
    \E i \in ItemIndex :
        /\ typed[i] = <<"-", "5">>
        /\ computedItems[i].priceValue = 5
        /\ computedItems[i].taxIncluded = 6

\* The positions of the ASCII digits in a text.
DigitPositions(text) == {k \in 1..Len(text) : text[k] \in Digits}
KthDigitPosition(text, k) ==
    CHOOSE p \in DigitPositions(text) :
        Cardinality({q \in DigitPositions(text) : q <= p}) = k

\* C10: every item's raw price is exactly the digit characters of the text
\* last typed into it, in their order, and so holds digits only.
C10_PriceIsDigitsOfTyped ==
    \A i \in ItemIndex :
        /\ AllDigits(items[i].price)
        /\ Len(items[i].price) = Cardinality(DigitPositions(typed[i]))
        /\ \A k \in 1..Len(items[i].price) :
              items[i].price[k] = typed[i][KthDigitPosition(typed[i], k)]

\* C10 witness: a typed text with a non-digit between digits, stored without it.
C10_Witness ==
    \E i \in ItemIndex :
        /\ typed[i] = <<"5", "-", "5">>
        /\ items[i].price = <<"5", "5">>

\* What the form shows of an item: its id, name and raw price.
ItemData(item) == [id |-> item.id, name |-> item.name, price |-> item.price]

\* In every state there are the two items, in their order, and those rendered
\* are the first visibleCount of them, with their data.
RenderedAreFirstVisible ==
    /\ Len(items) = 2
    /\ items[1].id = "item-1" /\ items[2].id = "item-2"
    /\ visibleCount \in {1, 2}
    /\ Len(itemsToRender) = visibleCount
    /\ \A k \in 1..Len(itemsToRender) :
          ItemData(itemsToRender[k]) = ItemData(items[k])

\* A step that changes the visible count changes no item.
CountSwitchKeepsItems == visibleCount' # visibleCount => items' = items

\* An edit of an item changes neither an id nor the other item.
EditKeepsOthers ==
    \A k \in ItemIndex :
        /\ items'[k].id = items[k].id
        /\ items'[k] # items[k] => items'[3 - k] = items[3 - k]

\* C11: after any name edits, price edits and visible-count switches the
\* rendered items are exactly the first visibleCount of the two items in
\* their order; a switch of the count changes no id, name or price and
\* removes no item.
C11_RenderedPrefixAndCountFrame ==
    /\ []RenderedAreFirstVisible
    /\ [][CountSwitchKeepsItems /\ EditKeepsOthers]_vars

\* C11 witness: the count is 1, only the first item is rendered, and the
\* second, not rendered, holds a name and a price edited earlier.
C11_Witness ==
    /\ visibleCount = 1
    /\ Len(itemsToRender) = 1 /\ itemsToRender[1].id = "item-1"
    /\ items[1].name = ""
    /\ items[2].name = "A" /\ items[2].price = <<"5", "5">>

\* The stored value offers no colour: nothing stored, the empty string, text
\* that does not parse, JSON that is no list, or a list without a string.
NothingUsableStored ==
    \/ storedAtOpen.kind # "array"
    \/ \A k \in 1..Len(storedAtOpen.items) : ~storedAtOpen.items[k].str

\* C12: at startup, when the store holds nothing usable, the shadow colour is
\* the default and the history is the one-element list of the default.
C12_FallsBackToDefault ==
    lastOp.op = "load" /\ NothingUsableStored =>
        /\ shadowColor = DEFAULT_SHADOW_COLOR
        /\ colorHistory = <<DEFAULT_SHADOW_COLOR>>

\* C13: in a burst of non-immediate colour changes at most one debounce
\* timer is pending at any time, and it is the one of the last change; a
\* change alone leaves the history and the store as they were; the timer that
\* fires commits the last colour of the burst, and no timer of an earlier
\* change of the burst ever fires.
C13_BurstCommitsLastOnly ==
    /\ Cardinality(timers) <= 1
    /\ \A t \in timers :
          t.id = historyTimeoutRef /\ t.color = shadowColor /\ lastOp.op = "input"
    /\ cancelled \cap fired = {}
    /\ store = JSONstringify(colorHistory)
    /\ lastOp.op = "input" =>
          /\ colorHistory = lastOp.prev
          /\ Cardinality(timers) = 1
          /\ lastOp.ref # NoTimer => lastOp.ref \in cancelled
    /\ lastOp.op = "timer" =>
          /\ lastOp.color = shadowColor
          /\ lastOp.ref \in fired
          /\ colorHistory[1] = shadowColor
          /\ \A k \in 2..Len(colorHistory) :
                \E j \in 1..Len(lastOp.prev) : lastOp.prev[j] = colorHistory[k]

\* C13 witness: a burst whose timer has fired; an earlier colour of the burst,
\* whose timer was cleared, is neither the committed one nor in the history.
C13_Witness ==
    /\ lastOp.op = "timer"
    /\ cancelled # {}
    /\ \E c \in clearedColors :
          /\ c # lastOp.color
          /\ \A k \in 1..Len(colorHistory) : colorHistory[k] # c
          /\ \A k \in 1..Len(store.items) : store.items[k] # Elem(c)

====
